---- MODULE Spec2Model ----
(***************************************************************************)
(* Type-detection pipeline of data_profiler.                               *)
(*                                                                         *)
(* A DataFrame is a sequence of columns; a column has a name (a sequence   *)
(* of one-character strings), a dtype (the pandas dtype name) and a        *)
(* sequence of cells.  A cell is a tagged value: null, str (a sequence of  *)
(* one-character strings), int (a Python/NumPy integer), flt (a float,     *)
(* kept as a fixed-point integer scaled by Scale), dt (a calendar date     *)
(* with seconds since midnight) or bool.                                   *)
(***************************************************************************)
EXTENDS Integers, Sequences, FiniteSets, TLC

VARIABLES
    config,     \* TypeDetectorConfig: keywords and thresholds (read-only)
    frames,     \* the DataFrame objects: "caller" (the caller's) and "copy"
    self_df,    \* which object the running code works on
    orig,       \* snapshot of the caller's table when the detector was built
    mode,       \* "detector": TypeDetector.run_detection; "steps": steps/*.py
    pc,         \* position inside run_detection (index into RunOrder)
    log,        \* the steps run_detection has executed so far, in order
    run,        \* 1: first run; 2: the run on the first run's output
    out1,       \* the table the first run returned (<<>> before that)
    raised,     \* an exception left the running call and ended the run
    keyword_file, \* the keyword file at keyword_config_path
    schema_dict, \* SchemaGenerator.schema_dict: the entries, in insertion order
    emitted,    \* what the last export wrote or returned
    directory   \* the data directory main walks

vars == <<config, frames, self_df, orig, mode, pc, log, run, out1, raised, keyword_file,
          schema_dict, emitted, directory>>

\* what the type-detection pipeline and from_yaml leave alone
downstream == <<schema_dict, emitted, directory>>

(***************************************************************************)
(* Bounds of the model.                                                    *)
(***************************************************************************)
MaxRows == 2
\* the calls made on one SchemaGenerator
MaxCalls == 3
\* the entries of the data directory
MaxFiles == 2

(***************************************************************************)
(* Characters and strings.                                                 *)
(***************************************************************************)
Uppers == <<"A","B","C","D","E","F","G","H","I","J","K","L","M",
            "N","O","P","Q","R","S","T","U","V","W","X","Y","Z">>
Lowers == <<"a","b","c","d","e","f","g","h","i","j","k","l","m",
            "n","o","p","q","r","s","t","u","v","w","x","y","z">>

\* str.lower() on one character
LowerChar(c) ==
    IF \E i \in 1..Len(Uppers) : Uppers[i] = c
    THEN Lowers[CHOOSE i \in 1..Len(Uppers) : Uppers[i] = c]
    ELSE c

\* str.lower()
Lower(s) == [i \in 1..Len(s) |-> LowerChar(s[i])]

\* Python's `sub in s` / Series.str.contains with a literal pattern
Contains(s, sub) ==
    \E i \in 0..(Len(s) - Len(sub)) : SubSeq(s, i + 1, i + Len(sub)) = sub

\* str.replace(ch, rep, regex=False) for a one-character pattern
RECURSIVE Replace(_, _, _)
Replace(s, ch, rep) ==
    IF s = <<>> THEN <<>>
    ELSE (IF Head(s) = ch THEN rep ELSE <<Head(s)>>) \o Replace(Tail(s), ch, rep)

\* str.slice(0, n)
Slice(s, n) == SubSeq(s, 1, IF Len(s) < n THEN Len(s) ELSE n)

DigitChars == <<"0","1","2","3","4","5","6","7","8","9">>
IsDigit(c) == \E i \in 1..10 : DigitChars[i] = c
DigitVal(c) == (CHOOSE i \in 1..10 : DigitChars[i] = c) - 1
AllDigits(s) == \A i \in 1..Len(s) : IsDigit(s[i])

RECURSIVE DigitsVal(_)
DigitsVal(s) ==
    IF s = <<>> THEN 0
    ELSE DigitsVal(SubSeq(s, 1, Len(s) - 1)) * 10 + DigitVal(s[Len(s)])

RECURSIVE NatStr(_)
NatStr(n) ==
    IF n < 10 THEN <<DigitChars[n + 1]>>
    ELSE NatStr(n \div 10) \o <<DigitChars[(n % 10) + 1]>>

(***************************************************************************)
(* Numbers.  A float is kept as value * Scale; Scale gives five fractional *)
(* digits, the most any modelled text value has.                           *)
(***************************************************************************)
Scale == 100 * 1000
Cent == Scale \div 100

Abs(n) == IF n < 0 THEN -n ELSE n

\* Parsing of one string as a number, as pd.to_numeric, pyarrow's
\* string->double cast and Python's float() do for strings made of digits,
\* '.', '-' and other characters: an optional '-', digits with at most one
\* '.', at least one digit.  ok: it parses; v: the value * Scale;
\* integral: the text is an integer literal (no '.').
ParseNum(s) ==
    LET neg  == Len(s) > 0 /\ s[1] = "-"
        body == IF neg THEN Tail(s) ELSE s
        dots == {i \in 1..Len(body) : body[i] = "."}
        p    == IF dots = {} THEN Len(body) + 1 ELSE CHOOSE i \in dots : TRUE
        ip   == SubSeq(body, 1, p - 1)
        fp   == SubSeq(body, p + 1, Len(body))
        fpad == Slice(fp \o <<"0","0","0","0","0">>, 5)
        good == /\ Cardinality(dots) <= 1
                /\ AllDigits(ip) /\ AllDigits(fp)
                /\ Len(ip) + Len(fp) > 0
        mag  == DigitsVal(ip) * Scale + DigitsVal(fpad)
    IN  IF good
        THEN [ok |-> TRUE, v |-> IF neg THEN -mag ELSE mag, integral |-> dots = {}]
        ELSE [ok |-> FALSE, v |-> 0, integral |-> FALSE]

\* round(2): to the nearest hundredth (ties to even)
Round2(v) ==
    LET a == Abs(v)
        q == a \div Cent
        r == a % Cent
        up == (2 * r > Cent) \/ (2 * r = Cent /\ q % 2 = 1)
        m == (IF up THEN q + 1 ELSE q) * Cent
    IN  IF v < 0 THEN -m ELSE m

\* x % 1 == 0.0
IsWhole(v) == v % Scale = 0

\* Python's str() of a float: the integer part, '.', the fractional digits
\* without trailing zeros (at least one)
RECURSIVE StripZeros(_)
StripZeros(s) ==
    IF Len(s) > 1 /\ s[Len(s)] = "0" THEN StripZeros(SubSeq(s, 1, Len(s) - 1)) ELSE s

FloatStr(v) ==
    LET a    == Abs(v)
        frac == NatStr(a % Scale)
        pad  == [i \in 1..(5 - Len(frac)) |-> "0"] \o frac
    IN  (IF v < 0 THEN <<"-">> ELSE <<>>) \o NatStr(a \div Scale) \o <<".">> \o StripZeros(pad)

IntStr(n) == (IF n < 0 THEN <<"-">> ELSE <<>>) \o NatStr(Abs(n))

(***************************************************************************)
(* Cells.  One record shape for every kind: k the kind, s the text of a    *)
(* str, n the number (int: the integer; flt: value * Scale; dt: the date   *)
(* as yyyymmdd; bool: 1/0), t the seconds since midnight of a dt.          *)
(***************************************************************************)
Null == [k |-> "null", s |-> <<>>, n |-> 0, t |-> 0]
Str(s) == [k |-> "str", s |-> s, n |-> 0, t |-> 0]
IntV(n) == [k |-> "int", s |-> <<>>, n |-> n, t |-> 0]
FltV(v) == [k |-> "flt", s |-> <<>>, n |-> v, t |-> 0]
DtV(d, sec) == [k |-> "dt", s |-> <<>>, n |-> d, t |-> sec]
BoolV(b) == [k |-> "bool", s |-> <<>>, n |-> IF b THEN 1 ELSE 0, t |-> 0]

IsNull(v) == v.k = "null"
IsStr(v) == v.k = "str"

Pad2(n) == IF n < 10 THEN <<"0">> \o NatStr(n) ELSE NatStr(n)

\* str() of a Timestamp: the date, and the time of day when it is not midnight
DateStr(v) ==
    LET y == v.n \div 10000
        m == (v.n \div 100) % 100
        d == v.n % 100
        date == NatStr(y) \o <<"-">> \o Pad2(m) \o <<"-">> \o Pad2(d)
        time == <<" ">> \o Pad2(v.t \div 3600) \o <<":">> \o Pad2((v.t \div 60) % 60)
                \o <<":">> \o Pad2(v.t % 60)
    IN  IF v.t = 0 THEN date ELSE date \o time

\* str(value) of a non-null cell
ToStr(v) ==
    CASE v.k = "str" -> v.s
      [] v.k = "int" -> IntStr(v.n)
      [] v.k = "flt" -> FloatStr(v.n)
      [] v.k = "dt" -> DateStr(v)
      [] v.k = "bool" -> IF v.n = 1 THEN <<"T","r","u","e">> ELSE <<"F","a","l","s","e">>
      [] OTHER -> <<"n","a","n">>

\* a year alone, YYYY, stands for its first day
Extended(s) ==
    IF Len(s) = 4 /\ AllDigits(s)
    THEN s \o <<"-","0","1","-","0","1">>
    ELSE s

\* the ISO form YYYY-MM-DD, optionally followed by " HH:MM:SS"
ParseIso(s) ==
    LET dateOk == /\ Len(s) \in {10, 19}
                  /\ s[5] = "-" /\ s[8] = "-"
                  /\ AllDigits(SubSeq(s, 1, 4))
                  /\ AllDigits(SubSeq(s, 6, 7))
                  /\ AllDigits(SubSeq(s, 9, 10))
                  /\ DigitsVal(SubSeq(s, 1, 4)) >= 1
                  /\ DigitsVal(SubSeq(s, 6, 7)) \in 1..12
                  /\ DigitsVal(SubSeq(s, 9, 10)) \in 1..31
        timeOk == \/ Len(s) = 10
                  \/ /\ s[11] = " " /\ s[14] = ":" /\ s[17] = ":"
                     /\ AllDigits(SubSeq(s, 12, 13))
                     /\ AllDigits(SubSeq(s, 15, 16))
                     /\ AllDigits(SubSeq(s, 18, 19))
                     /\ DigitsVal(SubSeq(s, 12, 13)) < 24
                     /\ DigitsVal(SubSeq(s, 15, 16)) < 60
                     /\ DigitsVal(SubSeq(s, 18, 19)) < 60
        day == DigitsVal(SubSeq(s, 1, 4)) * 10000 + DigitsVal(SubSeq(s, 6, 7)) * 100
               + DigitsVal(SubSeq(s, 9, 10))
        sec == IF Len(s) = 19
               THEN DigitsVal(SubSeq(s, 12, 13)) * 3600 + DigitsVal(SubSeq(s, 15, 16)) * 60
                    + DigitsVal(SubSeq(s, 18, 19))
               ELSE 0
    IN  IF dateOk /\ timeOk THEN DtV(day, sec) ELSE Null

\* pd.to_datetime(..., errors="coerce") of one string.  The modelled grammar
\* is the ISO form YYYY or YYYY-MM-DD, optionally followed by " HH:MM:SS";
\* every other text of the model is coerced to NaT.
DateParse(s) == ParseIso(Extended(s))

(***************************************************************************)
(* Columns and tables.                                                     *)
(***************************************************************************)
Col(name, dtype, vals) == [name |-> name, dtype |-> dtype, vals |-> vals]

Rows(col) == 1..Len(col.vals)
NonNull(col) == {i \in Rows(col) : ~IsNull(col.vals[i])}
\* Series.isnull().all()
AllNull(col) == NonNull(col) = {}
\* Series.nunique(dropna=True) counts the members of this set
Distinct(col) == {col.vals[i] : i \in NonNull(col)}

\* Series.astype("string[pyarrow]"): nulls stay null, the rest is str(value)
AsString(col) ==
    Col(col.name, "string",
        [i \in Rows(col) |-> IF IsNull(col.vals[i]) THEN Null ELSE Str(ToStr(col.vals[i]))])

\* DataFrame.columns / len(df): the shape of a table
ColumnNames(df) == [i \in 1..Len(df) |-> df[i].name]
RowCounts(df) == [i \in 1..Len(df) |-> Len(df[i].vals)]

\* The semantic type a pandas dtype stands for
SemType(dtype) ==
    CASE dtype = "object" -> "Unknown"
      [] dtype = "string" -> "Text"
      [] dtype \in {"int64", "Int64", "int64[pyarrow]"} -> "Integer"
      [] dtype \in {"float64", "double[pyarrow]"} -> "Decimal"
      [] dtype = "date32[pyarrow]" -> "Date"
      [] dtype \in {"datetime64[ns]", "timestamp[s][pyarrow]"} -> "Timestamp"
      [] dtype \in {"bool", "boolean[pyarrow]"} -> "Boolean"
      [] dtype = "category" -> "Categorical"
      [] OTHER -> "Unknown"

SemTypes(df) == [i \in 1..Len(df) |-> SemType(df[i].dtype)]
Values(df) == [i \in 1..Len(df) |-> df[i].vals]

MapCols(df, F(_)) == [i \in 1..Len(df) |-> F(df[i])]

\* lib.infer_dtype(values, skipna=True) of the cells of an object column
InferredDtype(col) ==
    LET kinds == {v.k : v \in Distinct(col)}
    IN  CASE kinds = {} -> "empty"
          [] kinds = {"str"} -> "string"
          [] kinds = {"bool"} -> "boolean"
          [] kinds = {"int"} -> "integer"
          [] kinds = {"flt"} -> "floating"
          [] kinds = {"dt"} -> "datetime"
          [] kinds = {"int", "flt"} -> "mixed-integer-float"
          [] "int" \in kinds -> "mixed-integer"
          [] OTHER -> "mixed"

\* Series.str on an object column raises AttributeError ("Can only use .str
\* accessor with string values") unless the cells are inferred as text
StrAccessorRaises(col) ==
    /\ col.dtype = "object"
    /\ InferredDtype(col) \notin {"string", "empty", "bytes", "mixed", "mixed-integer"}

\* a loop over the columns that an exception leaves at the first column
\* with R: the columns before it are done, that one and the rest are not
Until(df, F(_), R(_)) ==
    [i \in 1..Len(df) |-> IF \E j \in 1..i : R(df[j]) THEN df[i] ELSE F(df[i])]

SomeColumn(df, R(_)) == \E i \in 1..Len(df) : R(df[i])

(***************************************************************************)
(* TypeDetector (type_detector.py): the methods run_detection calls.       *)
(***************************************************************************)

\* variant: the empty column is replaced by a series of no rows at all
identify_empty_columns_unindexed(df) ==
    LET F(col) == IF AllNull(col) THEN Col(col.name, "string", <<>>) ELSE col
    IN  MapCols(df, F)

\* _identify_empty_columns: every all-null column is replaced by an empty
\* string[pyarrow] Series, which aligns to the index as all-null text
identify_empty_columns(df) ==
    LET F(col) == IF AllNull(col)
                  THEN Col(col.name, "string", [i \in Rows(col) |-> Null])
                  ELSE col
    IN  MapCols(df, F)

\* _is_forced_text: the keyword is looked up, as written, in the lowered name
is_forced_text(cfg, col_name) ==
    \E keyword \in cfg.text_keywords : Contains(Lower(col_name), keyword)

\* _convert_forced_text_columns
convert_forced_text_columns(cfg, df) ==
    LET F(col) == IF is_forced_text(cfg, col.name) THEN AsString(col) ELSE col
    IN  MapCols(df, F)

\* head(1000) of the sample
SampleSize == 1000

\* series.dropna().astype(str).head(1000), then the number of sampled values
\* that contain ch
SampleCount(col, ch) ==
    LET nn   == NonNull(col)
        kept == {i \in nn : Cardinality({j \in nn : j <= i}) <= SampleSize}
    IN  Cardinality({i \in kept : Contains(ToStr(col.vals[i]), <<ch>>)})

\* _infer_decimal_separator
infer_decimal_separator(col) ==
    IF SampleCount(col, ",") > SampleCount(col, ".") THEN "," ELSE "."

\* Series.str.<method>: applied to the str cells; every other cell gives NaN
StrMap(vals, F(_)) ==
    [i \in 1..Len(vals) |-> IF IsStr(vals[i]) THEN Str(F(vals[i].s)) ELSE Null]

\* the separator clean-up of _convert_numeric_columns (lines 70-74 and 81)
CleanSeparators(vals, decimal_sep) ==
    LET Comma(s) == Replace(Replace(s, ".", <<>>), ",", <<".">>)
        Dot(s)   == Replace(s, ",", <<>>)
    IN  IF decimal_sep = "," THEN StrMap(vals, Comma) ELSE StrMap(vals, Dot)

\* pd.to_numeric(series, errors="raise") on cleaned cells: does it raise?
ToNumericRaises(vals) ==
    \E i \in 1..Len(vals) : IsStr(vals[i]) /\ ~ParseNum(vals[i].s).ok

\* pd.to_numeric(...) followed by round(2): int64 when every cell is an
\* integer literal, float64 (nulls as NaN) otherwise
ToNumericRound(name, vals) ==
    LET allInt == \A i \in 1..Len(vals) : IsStr(vals[i]) /\ ParseNum(vals[i].s).integral
    IN  IF allInt
        THEN Col(name, "int64",
                 [i \in 1..Len(vals) |-> IntV(ParseNum(vals[i].s).v \div Scale)])
        ELSE Col(name, "float64",
                 [i \in 1..Len(vals) |->
                     IF IsNull(vals[i]) THEN Null
                     ELSE FltV(Round2(ParseNum(vals[i].s).v))])

\* one column of _convert_numeric_columns: the cleaned text is stored in the
\* column before to_numeric runs, so it stays there when to_numeric raises
NumericColumn(col) ==
    LET cleaned == CleanSeparators(col.vals, infer_decimal_separator(col))
    IN  IF ToNumericRaises(cleaned)
        THEN Col(col.name, "object", cleaned)
        ELSE ToNumericRound(col.name, cleaned)

\* _convert_numeric_columns: .str.replace is inside the try, which catches
\* ValueError and TypeError only
convert_numeric_columns_raises(df) == SomeColumn(df, StrAccessorRaises)

\* variant: no column is looked at
convert_numeric_columns_skipped(df) == df

\* _convert_numeric_columns
convert_numeric_columns(df) ==
    LET F(col) == IF col.dtype = "object" THEN NumericColumn(col) ELSE col
    IN  Until(df, F, StrAccessorRaises)

\* variant: a null keeps the column float
convert_float_columns_to_int_strict(df) ==
    LET whole(col) == \A i \in Rows(col) : ~IsNull(col.vals[i]) /\ IsWhole(col.vals[i].n)
        F(col) == IF col.dtype = "float64" /\ whole(col)
                  THEN Col(col.name, "Int64",
                           [i \in Rows(col) |-> IntV(col.vals[i].n \div Scale)])
                  ELSE col
    IN  MapCols(df, F)

\* _convert_float_columns_to_int
convert_float_columns_to_int(df) ==
    LET whole(col) == \A i \in Rows(col) : IsNull(col.vals[i]) \/ IsWhole(col.vals[i].n)
        F(col) == IF col.dtype = "float64" /\ whole(col)
                  THEN Col(col.name, "Int64",
                           [i \in Rows(col) |->
                               IF IsNull(col.vals[i]) THEN Null
                               ELSE IntV(col.vals[i].n \div Scale)])
                  ELSE col
    IN  MapCols(df, F)

\* the date-candidate test of _convert_date_columns (lines 108-112)
is_date_like(col) ==
    \/ \E i \in Rows(col) :
          /\ IsStr(col.vals[i])
          /\ (Contains(col.vals[i].s, <<"/">>) \/ Contains(col.vals[i].s, <<"-">>))
    \/ Contains(Lower(col.name), <<"f","e","c","h","a">>)
    \/ Contains(Lower(col.name), <<"d","a","t","e">>)

\* the legacy invalid-date marker
Sentinel == <<"0","0","0","1">>

\* lines 117-123: the first ten characters, the "0001" cells set to NaT,
\* then pd.to_datetime(errors="coerce")
SlicedDates(vals) ==
    LET Ten(s) == Slice(s, 10)
        temp   == StrMap(vals, Ten)
    IN  [i \in 1..Len(vals) |->
            IF IsStr(temp[i]) /\ ~Contains(temp[i].s, Sentinel)
            THEN DateParse(temp[i].s)
            ELSE Null]

CountNonNull(vals) == Cardinality({i \in 1..Len(vals) : ~IsNull(vals[i])})

\* one candidate column of _convert_date_columns
DateColumn(col) ==
    LET converted_series == SlicedDates(col.vals)
    IN  IF 2 * CountNonNull(converted_series) >= CountNonNull(col.vals)
        THEN Col(col.name, "datetime64[ns]", converted_series)
        ELSE col

\* _convert_date_columns: the .str.contains of is_date_like is outside the try
convert_date_columns_raises(df) == SomeColumn(df, StrAccessorRaises)

\* _convert_date_columns
convert_date_columns(df) ==
    LET F(col) == IF col.dtype = "object" /\ is_date_like(col) THEN DateColumn(col) ELSE col
    IN  Until(df, F, StrAccessorRaises)

\* variant: no column is taken as mixed
has_mixed_types_never(col) == FALSE

\* _has_mixed_types
has_mixed_types(col) ==
    LET TypeOf(v) ==
            CASE v.k \in {"int", "flt", "bool"} -> "numeric"
              [] v.k = "str" -> IF ParseNum(v.s).ok THEN "numeric" ELSE "string"
              [] OTHER -> "other"
        types_found == {TypeOf(v) : v \in Distinct(col)}
    IN  Cardinality(types_found) > 1

\* variant: only string columns are candidates
CategoricalDtypesStringOnly == {"string"}

\* the dtypes _convert_categorical_columns selects
CategoricalDtypes == {"object", "string"}

\* cardinality_threshold is kept in hundredths
ThresholdDen == 10 * 10

\* variant: a column without any value passes the test
is_low_cardinality_or_empty(cfg, col) ==
    LET num_unique  == Cardinality(Distinct(col))
        total_count == Len(col.vals)
    IN  /\ (IF total_count > 0
            THEN num_unique * ThresholdDen < cfg.cardinality_threshold * total_count
            ELSE 0 < cfg.cardinality_threshold)
        /\ num_unique <= cfg.unique_count_limit

\* the test of _convert_categorical_columns (lines 148-155)
is_low_cardinality(cfg, col) ==
    LET num_unique  == Cardinality(Distinct(col))
        total_count == Len(col.vals)
    IN  /\ (IF total_count > 0
            THEN num_unique * ThresholdDen < cfg.cardinality_threshold * total_count
            ELSE 0 < cfg.cardinality_threshold)
        /\ num_unique <= cfg.unique_count_limit
        /\ num_unique > 0

\* _convert_categorical_columns
convert_categorical_columns(cfg, df) ==
    LET F(col) == IF /\ col.dtype \in CategoricalDtypes
                     /\ is_low_cardinality(cfg, col)
                     /\ ~has_mixed_types(col)
                  THEN Col(col.name, "category", col.vals)
                  ELSE col
    IN  MapCols(df, F)

\* variant: the object columns are left as they are
convert_object_columns_to_string_skipped(df) == df

\* _convert_object_columns_to_string
convert_object_columns_to_string(df) ==
    LET F(col) == IF col.dtype = "object" THEN AsString(col) ELSE col
    IN  MapCols(df, F)

(***************************************************************************)
(* The step classes (steps/*.py).  Each process(df) changes the DataFrame  *)
(* it is given in place and returns it.                                    *)
(***************************************************************************)

\* EmptyColumnsToStringStep.process
EmptyColumnsToStringStep_process(df) ==
    LET F(col) == IF AllNull(col) THEN AsString(col) ELSE col
    IN  MapCols(df, F)

\* ForcedTextConversionStep._is_forced_text
step_is_forced_text(cfg, col_name) ==
    \E keyword \in cfg.text_keywords : Contains(Lower(col_name), keyword)

\* ForcedTextConversionStep.process
ForcedTextConversionStep_process(cfg, df) ==
    LET F(col) == IF step_is_forced_text(cfg, col.name) THEN AsString(col) ELSE col
    IN  MapCols(df, F)

\* ObjectToStringStep.process
ObjectToStringStep_process(df) ==
    LET F(col) == IF col.dtype = "object" THEN AsString(col) ELSE col
    IN  MapCols(df, F)

\* NumericConversionStep._infer_decimal_separator: <<decimal, thousands>>
step_infer_decimal_separator(col) ==
    IF SampleCount(col, ",") > SampleCount(col, ".") THEN <<",", ".">> ELSE <<".", ",">>

\* Series.astype(str): str() of every cell, "nan" for a missing one
AsPyStr(vals) == [i \in 1..Len(vals) |-> ToStr(vals[i])]

NaNText == <<"n","a","n">>

\* numeric.py lines 58-66: the text of every cell with the thousands
\* separator removed and the decimal separator made '.'
CleanArray(col) ==
    LET seps == step_infer_decimal_separator(col)
        strs == AsPyStr(col.vals)
    IN  [i \in 1..Len(strs) |-> Replace(Replace(strs[i], seps[2], <<>>), seps[1], <<".">>)]

\* array_limpio.cast(pa.float64()) raises ArrowInvalid (a ValueError)
CastRaises(strs) ==
    \E i \in 1..Len(strs) : strs[i] # NaNText /\ ~ParseNum(strs[i]).ok

\* the cast values as a double[pyarrow] column (NaN becomes null)
CastFloat(strs) ==
    [i \in 1..Len(strs) |-> IF strs[i] = NaNText THEN Null ELSE FltV(ParseNum(strs[i]).v)]

\* numeric.py lines 74-81: round(2) when some value has decimals
RoundIfDecimals(vals) ==
    IF \E i \in 1..Len(vals) : ~IsNull(vals[i]) /\ ~IsWhole(vals[i].n)
    THEN [i \in 1..Len(vals) |-> IF IsNull(vals[i]) THEN Null ELSE FltV(Round2(vals[i].n))]
    ELSE vals

\* one column of the loop of NumericConversionStep.process
StepNumericColumn(col) ==
    IF col.dtype = "object"
    THEN LET strs == CleanArray(col)
         IN  IF CastRaises(strs) THEN col
             ELSE Col(col.name, "double[pyarrow]", RoundIfDecimals(CastFloat(strs)))
    ELSE Col(col.name, "double[pyarrow]", RoundIfDecimals(col.vals))

\* NumericConversionStep._convert_float_columns_to_int
step_convert_float_columns_to_int(df) ==
    LET whole(col) == \A i \in Rows(col) : IsNull(col.vals[i]) \/ IsWhole(col.vals[i].n)
        F(col) == IF col.dtype = "double[pyarrow]" /\ whole(col)
                  THEN Col(col.name, "int64[pyarrow]",
                           [i \in Rows(col) |->
                               IF IsNull(col.vals[i]) THEN Null
                               ELSE IntV(col.vals[i].n \div Scale)])
                  ELSE col
    IN  MapCols(df, F)

\* NumericConversionStep.process
NumericConversionStep_process(df) ==
    LET F(col) == IF col.dtype \in {"object", "float64"} THEN StepNumericColumn(col) ELSE col
    IN  step_convert_float_columns_to_int(MapCols(df, F))

\* the epoch, which pd.to_datetime gives a small integer (nanoseconds)
Epoch == DtV(19700101, 0)

\* date.py lines 45-46: the cells that contain "0001" are set to NaT in
\* original_col itself
MaskSentinel(vals) ==
    [i \in 1..Len(vals) |->
        IF IsStr(vals[i]) /\ Contains(vals[i].s, Sentinel) THEN Null ELSE vals[i]]

\* pd.to_datetime(original_col, errors="coerce")
ToDatetime(vals) ==
    [i \in 1..Len(vals) |->
        CASE IsStr(vals[i]) -> DateParse(vals[i].s)
          [] vals[i].k \in {"int", "flt"} -> Epoch
          [] OTHER -> vals[i]]

\* DateConversionStep._all_times_are_midnight
all_times_are_midnight(vals) ==
    /\ Len(vals) > 0
    /\ CountNonNull(vals) > 0
    /\ \A i \in 1..Len(vals) : IsNull(vals[i]) \/ vals[i].t = 0

\* one candidate column of DateConversionStep.process
StepDateColumn(col) ==
    LET original_col     == MaskSentinel(col.vals)
        converted_series == ToDatetime(original_col)
    IN  IF 2 * CountNonNull(converted_series) >= CountNonNull(original_col)
        THEN IF all_times_are_midnight(converted_series)
             THEN Col(col.name, "date32[pyarrow]", converted_series)
             ELSE Col(col.name, "timestamp[s][pyarrow]", converted_series)
        ELSE Col(col.name, col.dtype, original_col)

\* DateConversionStep.process: the .str.contains of is_date_like is outside
\* the try
DateConversionStep_raises(df) == SomeColumn(df, StrAccessorRaises)

\* DateConversionStep.process
DateConversionStep_process(df) ==
    LET F(col) == IF col.dtype = "object" /\ is_date_like(col) THEN StepDateColumn(col)
                  ELSE col
    IN  Until(df, F, StrAccessorRaises)

\* str.strip() for blanks
RECURSIVE Strip(_)
Strip(s) ==
    IF s # <<>> /\ Head(s) = " " THEN Strip(Tail(s))
    ELSE IF s # <<>> /\ s[Len(s)] = " " THEN Strip(SubSeq(s, 1, Len(s) - 1))
    ELSE s

\* BooleanConversionStep._is_potential_boolean
is_potential_boolean(cfg, col) ==
    LET unique_values       == Distinct(col)
        allowed_values      == cfg.boolean_true_values \cup cfg.boolean_false_values
        unique_values_lower == {Lower(Strip(ToStr(v))) : v \in unique_values}
    IN  /\ Cardinality(unique_values) = 2
        /\ unique_values_lower \subseteq allowed_values

\* boolean.py lines 30-31 and 38: map_to_bool applied to the lowered text;
\* the false values overwrite the true ones, a text outside the map is NA
MapToBool(cfg, v) ==
    LET key == Lower(Strip(ToStr(v)))
    IN  IF key \in {Lower(f) : f \in cfg.boolean_false_values} THEN BoolV(FALSE)
        ELSE IF key \in {Lower(x) : x \in cfg.boolean_true_values} THEN BoolV(TRUE)
        ELSE Null

\* BooleanConversionStep.process
BooleanConversionStep_process(cfg, df) ==
    LET F(col) == IF col.dtype \in {"object", "string"} /\ is_potential_boolean(cfg, col)
                  THEN Col(col.name, "boolean[pyarrow]",
                           [i \in Rows(col) |-> MapToBool(cfg, col.vals[i])])
                  ELSE col
    IN  MapCols(df, F)

\* CategoricalConversionStep._has_mixed_types
step_has_mixed_types(col) ==
    LET TypeOf(v) ==
            CASE v.k \in {"int", "flt", "bool"} -> "numeric"
              [] v.k = "str" -> IF ParseNum(v.s).ok THEN "numeric" ELSE "string"
              [] OTHER -> "other"
        types_found == {TypeOf(v) : v \in Distinct(col)}
    IN  Cardinality(types_found) > 1

\* the dtypes CategoricalConversionStep.process selects
StepCategoricalDtypes == {"object", "string"}

\* CategoricalConversionStep.process
CategoricalConversionStep_process(cfg, df) ==
    LET low(col) ==
            LET num_unique  == Cardinality(Distinct(col))
                total_count == Len(col.vals)
            IN  /\ (IF total_count > 0
                    THEN num_unique * ThresholdDen < cfg.cardinality_threshold * total_count
                    ELSE 0 < cfg.cardinality_threshold)
                /\ num_unique <= cfg.unique_count_limit
                /\ num_unique > 0
        F(col) == IF /\ col.dtype \in StepCategoricalDtypes
                     /\ low(col)
                     /\ ~step_has_mixed_types(col)
                  THEN Col(col.name, "category", col.vals)
                  ELSE col
    IN  MapCols(df, F)

(***************************************************************************)
(* Inputs: the tables and configurations the runs start from.              *)
(***************************************************************************)
Chars_cod == <<"c","o","d">>
Chars_COD == <<"C","O","D">>
Chars_fecha == <<"f","e","c","h","a">>
Chars_x == <<"x">>
Chars_y == <<"y">>

NamePool == {Chars_cod, Chars_COD, Chars_fecha, Chars_x}

V_1500_75_comma == Str(<<"1",".","5","0","0",",","7","5">>)
V_1500_75_dot == Str(<<"1",",","5","0","0",".","7","5">>)
V_1_5_comma == Str(<<"1",",","5">>)
V_2 == Str(<<"2">>)
V_2_001 == Str(<<"2",".","0","0","1">>)
V_si == Str(<<"s","i">>)
V_no == Str(<<"n","o">>)
V_yes == Str(<<"y","e","s">>)
V_date == Str(<<"2","0","2","4","-","0","1","-","1","5">>)
V_year == Str(<<"2","0","2","4">>)
V_timestamp ==
    Str(<<"2","0","2","4","-","0","1","-","1","5"," ","1","0",":","3","0",":","0","0">>)
V_date_0001 == Str(<<"0","0","0","1","-","0","1","-","0","1">>)

CellPool ==
    {Null, V_1500_75_comma, V_1500_75_dot, V_1_5_comma, V_2, V_2_001,
     V_si, V_no, V_yes, V_date, V_year, V_timestamp, V_date_0001, IntV(100)}

\* the cells of a column of booleans with blanks
BoolPool == {Null, BoolV(TRUE), BoolV(FALSE)}

\* the dtype pandas gives a column built from these cells: object when a
\* string is present, bool for booleans alone and object for booleans with
\* blanks, int64 for integers alone, float64 when NaN is present
LoadColumn(name, vals) ==
    LET idx == 1..Len(vals)
    IN  IF \E i \in idx : IsStr(vals[i]) THEN Col(name, "object", vals)
        ELSE IF \E i \in idx : vals[i].k = "bool"
        THEN Col(name, IF \A i \in idx : ~IsNull(vals[i]) THEN "bool" ELSE "object", vals)
        ELSE IF \A i \in idx : ~IsNull(vals[i]) THEN Col(name, "int64", vals)
        ELSE Col(name, "float64",
                 [i \in idx |-> IF IsNull(vals[i]) THEN Null ELSE FltV(vals[i].n * Scale)])

\* a second column, to the right of the first
Companion(rows) == Col(Chars_y, "object", [i \in 1..rows |-> V_si])

\* one column of up to MaxRows rows, or two columns of one row
Tables ==
    UNION { UNION { { <<LoadColumn(name, vals)>> }
                    \cup (IF rows = 1 THEN { <<LoadColumn(name, vals), Companion(rows)>> }
                          ELSE {})
                    : vals \in [1..rows -> CellPool] \cup [1..rows -> BoolPool] }
            : rows \in 1..MaxRows, name \in NamePool }

\* context/Models.py: the defaults of TypeDetectorConfig
DefaultCardinalityThreshold == 5
DefaultUniqueCountLimit == 100

\* boolean.py lines 15-16: the values used when the keyword file names none
DefaultTrueValues == {<<"t","r","u","e">>, <<"y","e","s">>, <<"s","i">>}
DefaultFalseValues == {<<"f","a","l","s","e">>, <<"n","o">>}

\* cardinality_threshold in hundredths
Configs ==
    [text_keywords : {{Chars_cod}, {Chars_COD}},
     cardinality_threshold : {10 * 10, 150},
     unique_count_limit : {1, DefaultUniqueCountLimit},
     boolean_true_values : {DefaultTrueValues},
     boolean_false_values : {DefaultFalseValues}]

(***************************************************************************)
(* TypeDetectorConfig.from_yaml (context/Models.py).  A keyword file is     *)
(* missing, malformed, or holds a mapping from some of the keys to sets of  *)
(* words.                                                                   *)
(***************************************************************************)
KeywordKeys == {"text_keywords", "boolean_true_values", "boolean_false_values"}

Mapping(data) == [kind |-> "mapping", data |-> data]
MissingFile == [kind |-> "missing", data |-> <<>>]
MalformedFile == [kind |-> "malformed", data |-> <<>>]

\* keywords.get(key, default)
Get(keywords, key, default) == IF key \in DOMAIN keywords THEN keywords[key] ELSE default

\* the configuration as the detector reads it: the three keyword sets, with
\* the defaults of the .get calls, and the two thresholds
ConfigOf(keywords, cardinality_threshold, unique_count_limit) ==
    [text_keywords |-> Get(keywords, "text_keywords", {}),
     cardinality_threshold |-> cardinality_threshold,
     unique_count_limit |-> unique_count_limit,
     boolean_true_values |-> Get(keywords, "boolean_true_values", DefaultTrueValues),
     boolean_false_values |-> Get(keywords, "boolean_false_values", DefaultFalseValues)]

\* the keyword file a configuration was read from (the test fixture)
KeywordFile(cfg) ==
    Mapping([key \in KeywordKeys |-> cfg[key]])

\* the keyword files of the model
KeywordFiles ==
    LET full == [text_keywords : SUBSET {Chars_cod, Chars_COD, Chars_fecha},
                 boolean_true_values : {DefaultTrueValues, {V_si.s}},
                 boolean_false_values : {DefaultFalseValues, {V_no.s}}]
    IN  {MissingFile, MalformedFile}
        \cup {Mapping([key \in keys |-> f[key]]) : f \in full, keys \in SUBSET KeywordKeys}

\* cls(keyword_config_path=config_path, keywords={}) of the two except
\* branches.  The class is a BaseModel under @dataclass(frozen=True): the
\* generated __init__ has no default for the two thresholds and the call
\* raises TypeError; where the BaseModel __init__ is the one in force the
\* call validates keyword_config_path, a FilePath, and raises for a file
\* that does not exist.
FallbackOutcomes(file) ==
    {[raised |-> TRUE, config |-> ConfigOf(<<>>, 0, 0)]}
    \cup (IF file.kind = "malformed"
          THEN {[raised |-> FALSE,
                 config |-> ConfigOf(<<>>, DefaultCardinalityThreshold, DefaultUniqueCountLimit)]}
          ELSE {})

\* from_yaml: what the call can end as
from_yaml(file) ==
    IF file.kind = "mapping"
    THEN {[raised |-> FALSE,
           config |-> ConfigOf(file.data, DefaultCardinalityThreshold,
                               DefaultUniqueCountLimit)]}
    ELSE FallbackOutcomes(file)

\* no directory is walked
NoDirectory == [relative |-> FALSE, entries |-> <<>>]
\* nothing was exported
NoExport == [kind |-> "none", table |-> <<>>, rows |-> <<>>]

\* before the call: no configuration yet
InitConfig ==
    /\ keyword_file \in KeywordFiles
    /\ config = ConfigOf(<<>>, 0, 0)
    /\ mode = "from_yaml"
    /\ pc = 1
    /\ raised = FALSE
    /\ frames = [caller |-> <<>>, copy |-> <<>>]
    /\ self_df = "caller"
    /\ orig = <<>>
    /\ log = <<>>
    /\ run = 1
    /\ out1 = <<>>
    /\ schema_dict = <<>>
    /\ emitted = NoExport
    /\ directory = NoDirectory

\* TypeDetectorConfig.from_yaml(config_path)
FromYaml ==
    /\ mode = "from_yaml"
    /\ pc = 1
    /\ ~raised
    /\ \E outcome \in from_yaml(keyword_file) :
          /\ raised' = outcome.raised
          /\ config' = outcome.config
          /\ pc' = IF outcome.raised THEN pc ELSE pc + 1
    /\ UNCHANGED <<frames, self_df, orig, mode, log, run, out1, keyword_file, downstream>>

NextConfig == FromYaml

SpecConfig == InitConfig /\ [][NextConfig]_vars

(***************************************************************************)
(* TypeDetector.__init__ and run_detection.                                *)
(***************************************************************************)

\* variant: the detector keeps the caller's table itself
TypeDetectorInitShared == "caller"

\* __init__: self.df = df.copy() -- the detector works on its own object
TypeDetectorInit == "copy"

\* variant: the dates are looked for before the numbers
RunOrderDateFirst ==
    <<"identify_empty_columns", "convert_forced_text_columns",
      "convert_date_columns", "convert_numeric_columns",
      "convert_float_columns_to_int", "convert_categorical_columns",
      "convert_object_columns_to_string">>

\* run_detection, lines 14-20
RunOrder ==
    <<"identify_empty_columns", "convert_forced_text_columns",
      "convert_numeric_columns", "convert_float_columns_to_int",
      "convert_date_columns", "convert_categorical_columns",
      "convert_object_columns_to_string">>

\* the pipeline of the step classes: the fixed order, the Boolean step
\* present when it is enabled
StepsOrder(with_boolean) ==
    <<"EmptyColumnsToStringStep", "ForcedTextConversionStep",
      "NumericConversionStep", "DateConversionStep">>
    \o (IF with_boolean THEN <<"BooleanConversionStep">> ELSE <<>>)
    \o <<"CategoricalConversionStep", "ObjectToStringStep">>

Modes == {"detector", "steps", "steps_boolean"}

Order ==
    IF mode = "detector" THEN RunOrder ELSE StepsOrder(mode = "steps_boolean")

Returned == pc = Len(Order) + 1

\* the table the running code works on
Df == frames[self_df]

Init ==
    /\ config \in Configs
    /\ mode \in Modes
    /\ \E t \in Tables :
          /\ orig = t
          /\ frames = [caller |-> t, copy |-> t]
    /\ self_df = IF mode = "detector" THEN TypeDetectorInit ELSE "caller"
    /\ pc = 1
    /\ log = <<>>
    /\ run = 1
    /\ out1 = <<>>
    /\ raised = FALSE
    /\ keyword_file = KeywordFile(config)
    /\ schema_dict = <<>>
    /\ emitted = NoExport
    /\ directory = NoDirectory

\* one call of the pipeline: `method` turns the table into `result` and
\* returns, or leaves it as `result` when an exception ends the call
Call(method, result, raises) ==
    /\ ~raised
    /\ pc \in 1..Len(Order)
    /\ Order[pc] = method
    /\ frames' = [frames EXCEPT ![self_df] = result]
    /\ raised' = raises
    /\ pc' = IF raises THEN pc ELSE pc + 1
    /\ log' = IF raises THEN log ELSE Append(log, method)
    /\ UNCHANGED <<config, self_df, orig, mode, run, out1, keyword_file, downstream>>

IdentifyEmptyColumns ==
    Call("identify_empty_columns", identify_empty_columns(Df),
         FALSE)

ConvertForcedTextColumns ==
    Call("convert_forced_text_columns", convert_forced_text_columns(config, Df),
         FALSE)

ConvertNumericColumns ==
    Call("convert_numeric_columns", convert_numeric_columns(Df),
         convert_numeric_columns_raises(Df))

ConvertFloatColumnsToInt ==
    Call("convert_float_columns_to_int", convert_float_columns_to_int(Df),
         FALSE)

ConvertDateColumns ==
    Call("convert_date_columns", convert_date_columns(Df),
         convert_date_columns_raises(Df))

ConvertCategoricalColumns ==
    Call("convert_categorical_columns", convert_categorical_columns(config, Df),
         FALSE)

ConvertObjectColumnsToString ==
    Call("convert_object_columns_to_string", convert_object_columns_to_string(Df),
         FALSE)

\* the caller builds a second TypeDetector on the table the first run
\* returned and runs it
Rerun ==
    /\ mode = "detector"
    /\ Returned
    /\ run = 1
    /\ out1' = Df
    /\ orig' = Df
    /\ frames' = [caller |-> Df, copy |-> Df]
    /\ self_df' = TypeDetectorInit
    /\ pc' = 1
    /\ log' = <<>>
    /\ run' = 2
    /\ UNCHANGED <<config, mode, raised, keyword_file, downstream>>

EmptyColumnsToStringStep ==
    Call("EmptyColumnsToStringStep", EmptyColumnsToStringStep_process(Df),
         FALSE)

ForcedTextConversionStep ==
    Call("ForcedTextConversionStep", ForcedTextConversionStep_process(config, Df),
         FALSE)

NumericConversionStep ==
    Call("NumericConversionStep", NumericConversionStep_process(Df),
         FALSE)

DateConversionStep ==
    Call("DateConversionStep", DateConversionStep_process(Df),
         DateConversionStep_raises(Df))

BooleanConversionStep ==
    Call("BooleanConversionStep", BooleanConversionStep_process(config, Df),
         FALSE)

CategoricalConversionStep ==
    Call("CategoricalConversionStep", CategoricalConversionStep_process(config, Df),
         FALSE)

ObjectToStringStep ==
    Call("ObjectToStringStep", ObjectToStringStep_process(Df),
         FALSE)

Next ==
    \/ IdentifyEmptyColumns
    \/ ConvertForcedTextColumns
    \/ ConvertNumericColumns
    \/ ConvertFloatColumnsToInt
    \/ ConvertDateColumns
    \/ ConvertCategoricalColumns
    \/ ConvertObjectColumnsToString
    \/ Rerun
    \/ EmptyColumnsToStringStep
    \/ ForcedTextConversionStep
    \/ NumericConversionStep
    \/ DateConversionStep
    \/ BooleanConversionStep
    \/ CategoricalConversionStep
    \/ ObjectToStringStep

Spec == Init /\ [][Next]_vars

(***************************************************************************)
(* The typed tables the schema layer is given (the optimized_dataframe      *)
(* fixture of tests/test_schema_generator.py, and what the pipeline         *)
(* returns): each column has one dtype; an all-null column is text.         *)
(***************************************************************************)
V_empty == Str(<<>>)
V_ab == Str(<<"a","b">>)
V_abcde == Str(<<"a","b","c","d","e">>)
V_CO == Str(<<"C","O">>)
V_MXN == Str(<<"M","X","N">>)
V_monto == FltV(150075 * Cent)
V_monto_neg == FltV(-150075 * Cent)
V_fecha_registro == DtV(20240110, 0)
V_fecha_ultima_compra == DtV(20240601, 52200)

\* the dtypes a kind of cells comes in, without and with nulls
TypedDtypes(kind, has_null) ==
    CASE kind = "int" -> IF has_null THEN {"Int64"} ELSE {"int64", "Int64"}
      [] kind = "flt" -> {"float64"}
      [] kind = "str" -> {"string", "object"}
      [] kind = "cat" -> {"category"}
      [] kind = "bool" -> IF has_null THEN {"boolean[pyarrow]", "object"}
                          ELSE {"bool", "boolean[pyarrow]"}
      [] kind = "date" -> {"date32[pyarrow]", "datetime64[ns]"}
      [] kind = "ts" -> {"timestamp[s][pyarrow]", "datetime64[ns]"}
      [] OTHER -> {"duration[s][pyarrow]"}

TypedPool(kind) ==
    CASE kind = "int" -> {IntV(5), IntV(-5), IntV(1500)}
      [] kind = "flt" -> {V_monto, V_monto_neg, FltV(45 * Scale)}
      [] kind = "str" -> {V_empty, V_ab, V_abcde}
      [] kind = "cat" -> {V_CO, V_MXN}
      [] kind = "bool" -> {BoolV(TRUE), BoolV(FALSE)}
      [] kind = "date" -> {V_fecha_registro}
      [] kind = "ts" -> {V_fecha_ultima_compra}
      [] OTHER -> {IntV(5)}

TypedKinds == {"int", "flt", "str", "cat", "bool", "date", "ts"}

\* the columns of `rows` rows named `name` whose cells are of the kinds
TypedColumns(kinds, name, rows) ==
    UNION { UNION { IF \A i \in 1..rows : IsNull(vals[i])
                    THEN {Col(name, "string", vals)}
                    ELSE {Col(name, dtype, vals) :
                            dtype \in TypedDtypes(kind, \E i \in 1..rows : IsNull(vals[i]))}
                    : vals \in [1..rows -> TypedPool(kind) \cup {Null}] }
            : kind \in kinds }

\* one column of up to MaxRows rows, or two columns of one row
TypedTables(kinds) ==
    UNION { { <<c>> : c \in TypedColumns(kinds, Chars_x, rows) } : rows \in 1..MaxRows }
    \cup { <<c, d>> : c \in TypedColumns(kinds, Chars_x, 1),
                      d \in TypedColumns(kinds, Chars_y, 1) }

(***************************************************************************)
(* pandas: the dtype tests and the renderings the schema layer uses.        *)
(***************************************************************************)
is_integer_dtype(dtype) == dtype \in {"int64", "Int64", "int64[pyarrow]"}
is_float_dtype(dtype) == dtype \in {"float64", "double[pyarrow]"}
\* ArrowDtype.kind is "M" for a timestamp and for a date
is_datetime64_any_dtype(dtype) ==
    dtype \in {"datetime64[ns]", "timestamp[s][pyarrow]", "date32[pyarrow]"}
is_categorical(dtype) == dtype = "category"
\* of a dtype (not of an array): object counts as a string dtype
is_string_dtype(dtype) == dtype \in {"object", "string"}
is_object_dtype(dtype) == dtype = "object"
is_bool_dtype(dtype) == dtype \in {"bool", "boolean[pyarrow]"}
is_numeric_dtype(dtype) ==
    is_integer_dtype(dtype) \/ is_float_dtype(dtype) \/ dtype = "bool"
\* dtype.pyarrow_dtype exists on an ArrowDtype only
has_pyarrow_dtype(dtype) ==
    dtype \in {"int64[pyarrow]", "double[pyarrow]", "boolean[pyarrow]",
               "date32[pyarrow]", "timestamp[s][pyarrow]", "duration[s][pyarrow]"}

\* str() of a missing cell under Series.astype(str)
NullStr(dtype) ==
    IF dtype \in {"float64", "object", "category"} THEN <<"n","a","n">>
    ELSE IF dtype = "datetime64[ns]" THEN <<"N","a","T">>
    ELSE <<"<","N","A",">">>

\* Series.astype(str): every cell, the missing ones too, as text
AstypeStr(col) ==
    [i \in Rows(col) |-> IF IsNull(col.vals[i]) THEN NullStr(col.dtype)
                         ELSE ToStr(col.vals[i])]

\* max() over no value
NaN == -1

Max(S) == IF S = {} THEN NaN ELSE CHOOSE m \in S : \A n \in S : n <= m
Min(S) == IF S = {} THEN NaN ELSE CHOOSE m \in S : \A n \in S : m <= n

\* series.astype(str).str.len().max()
StrLenMax(col) == Max({Len(AstypeStr(col)[i]) : i \in Rows(col)})

\* (series.str.len() == max_len).all(): a missing cell has no length; the
\* nullable result of a string column skips it, the float result of an
\* object or categorical column compares unequal
AllOfLen(col, max_len) ==
    \A i \in Rows(col) :
        IF IsNull(col.vals[i]) THEN col.dtype = "string"
        ELSE Len(ToStr(col.vals[i])) = max_len

\* series.str raises on a column that does not hold text
StrRaises(col) == StrAccessorRaises(col)

\* a type of the target database: its name and its arguments
Ty(name, args) == [name |-> name, args |-> args]

\* what a call can end as: a value, or an exception
Ret(val) == [raised |-> FALSE, val |-> val]
Raise == [raised |-> TRUE, val |-> Ty("", <<>>)]

\* _get_numeric_precision: int() truncates toward zero, str() keeps the sign
get_numeric_precision(col) ==
    LET ints == {(IF col.vals[i].n < 0 THEN -1 ELSE 1) * (Abs(col.vals[i].n) \div Scale)
                   : i \in NonNull(col)}
        max_int_len == Max({Len(IntStr(n)) : n \in ints})
    IN  IF ints = {} THEN NaN ELSE max_int_len + 2

(***************************************************************************)
(* SchemaGenerator (schema_generator.py).                                   *)
(***************************************************************************)
\* _detect_oracle_type
detect_oracle_type(col) ==
    LET max_len == StrLenMax(col)
    IN  IF is_integer_dtype(col.dtype) THEN Ret(Ty("NUMBER", <<max_len>>))
        ELSE IF is_float_dtype(col.dtype)
        THEN Ret(Ty("NUMBER", <<get_numeric_precision(col), 2>>))
        ELSE IF is_datetime64_any_dtype(col.dtype) THEN Ret(Ty("DATE", <<>>))
        ELSE IF is_categorical(col.dtype) \/ is_string_dtype(col.dtype)
                \/ is_object_dtype(col.dtype)
        THEN IF StrRaises(col) THEN Raise
             ELSE IF AllOfLen(col, max_len) THEN Ret(Ty("CHAR", <<max_len>>))
             ELSE Ret(Ty("VARCHAR2", <<max_len>>))
        ELSE Ret(Ty("VARCHAR2", <<255>>))

\* the texts of the non-null cells
Literals(col) == {ToStr(col.vals[i]) : i \in NonNull(col)}
\* the numbers of the non-null cells, times Scale
Numbers(col) ==
    [i \in NonNull(col) |->
        IF col.vals[i].k = "int" THEN col.vals[i].n * Scale ELSE col.vals[i].n]
RECURSIVE SumOver(_, _)
SumOver(f, S) ==
    IF S = {} THEN 0 ELSE LET i == CHOOSE j \in S : TRUE IN f[i] + SumOver(f, S \ {i})

\* a descriptor: a list of values, the statistics string, the date-range
\* string, or ''
Descriptor(kind, cats, lo, hi, sum, count) ==
    [kind |-> kind, cats |-> cats, lo |-> lo, hi |-> hi, sum |-> sum, count |-> count]
EmptyDescriptor == Descriptor("empty", {}, 0, 0, 0, 0)

\* _analyze_patterns.  describe() of a bool column has no 'min': KeyError
analyze_patterns(col) ==
    IF is_categorical(col.dtype)
    THEN Ret(Descriptor("list", Literals(col), 0, 0, 0, 0))
    ELSE IF is_numeric_dtype(col.dtype)
    THEN IF col.dtype = "bool" THEN Raise
         ELSE LET nums == Numbers(col)
                  S == {nums[i] : i \in NonNull(col)}
              IN  Ret(Descriptor("stats", {}, Min(S), Max(S),
                                 SumOver(nums, NonNull(col)), Cardinality(NonNull(col))))
    ELSE IF is_datetime64_any_dtype(col.dtype) /\ ~AllNull(col)
    THEN LET S == {col.vals[i].n : i \in NonNull(col)}
         IN  Ret(Descriptor("range", {}, Min(S), Max(S), 0, 0))
    ELSE Ret(EmptyDescriptor)

\* the entry of one column
SchemaEntry(col, tipo) ==
    [column |-> col.name,
     Tipo |-> tipo,
     longitud |-> StrLenMax(col),
     valores_permitidos |-> analyze_patterns(col).val,
     obligatoria |-> NonNull(col) = Rows(col)]

\* the column fails: one of the two derivations raises
EntryRaises(col) == detect_oracle_type(col).raised \/ analyze_patterns(col).raised

\* self.schema_dict[column] = entry: in place for a known key, else last
Put(schema, entry) ==
    IF \E i \in 1..Len(schema) : schema[i].column = entry.column
    THEN [i \in 1..Len(schema) |->
            IF schema[i].column = entry.column THEN entry ELSE schema[i]]
    ELSE Append(schema, entry)

\* the loop of generate_schema_dict from column i on: the schema it leaves,
\* whether it raised, and the number of entries it derived
RECURSIVE generate_schema_dict(_, _, _, _)
generate_schema_dict(df, schema, i, derived) ==
    IF i > Len(df) THEN [schema |-> schema, raised |-> FALSE, derived |-> derived]
    ELSE IF EntryRaises(df[i]) THEN [schema |-> schema, raised |-> TRUE, derived |-> derived]
    ELSE generate_schema_dict(df, Put(schema, SchemaEntry(df[i], detect_oracle_type(df[i]).val)),
                              i + 1, derived + 1)

\* if not self.schema_dict: self.generate_schema_dict()
EnsureSchema(df, schema) ==
    IF schema = <<>> THEN generate_schema_dict(df, schema, 1, 0)
    ELSE [schema |-> schema, raised |-> FALSE, derived |-> 0]

\* SchemaGenerator(df): self.df = df, self.schema_dict = {}
InitSchema ==
    /\ mode = "schema"
    /\ \E t \in TypedTables(TypedKinds) :
          /\ orig = t
          /\ frames = [caller |-> t, copy |-> t]
    /\ self_df = "caller"
    /\ schema_dict = <<>>
    /\ emitted = NoExport
    /\ raised = FALSE
    /\ log = <<>>
    /\ pc = 1
    /\ run = 1
    /\ out1 = <<>>
    /\ config = ConfigOf(<<>>, DefaultCardinalityThreshold, DefaultUniqueCountLimit)
    /\ keyword_file = KeywordFile(config)
    /\ directory = NoDirectory

Export(kind, table, rows) == [kind |-> kind, table |-> table, rows |-> rows]

\* one call on the generator: it leaves the schema of `outcome`, and when
\* it does not raise it emits `export`
SchemaCall(name, outcome, export) ==
    /\ mode = "schema"
    /\ Len(log) < MaxCalls
    /\ schema_dict' = outcome.schema
    /\ raised' = outcome.raised
    /\ emitted' = IF outcome.raised THEN emitted ELSE export
    /\ log' = Append(log, [call |-> name, derived |-> outcome.derived,
                           raised |-> outcome.raised])
    /\ pc' = pc + 1
    /\ UNCHANGED <<config, frames, self_df, orig, mode, run, out1, keyword_file, directory>>

GenerateSchemaDict ==
    SchemaCall("generate_schema_dict", generate_schema_dict(Df, schema_dict, 1, 0), emitted)

\* to_excel: one row per entry of the schema
ToExcel ==
    LET outcome == EnsureSchema(Df, schema_dict)
    IN  SchemaCall("to_excel", outcome, Export("excel", <<>>, outcome.schema))

\* to_oracle_ddl: one '"column" Tipo' line per entry of the schema
ToOracleDdl ==
    LET outcome == EnsureSchema(Df, schema_dict)
    IN  \E table_name \in {<<"t">>} :
          SchemaCall("to_oracle_ddl", outcome,
                     Export("ddl", table_name,
                            [i \in 1..Len(outcome.schema) |->
                               [column |-> outcome.schema[i].column,
                                Tipo |-> outcome.schema[i].Tipo]]))

NextSchema == GenerateSchemaDict \/ ToExcel \/ ToOracleDdl

SpecSchema == InitSchema /\ [][NextSchema]_vars

(***************************************************************************)
(* The dialects (dialects/oracle.py, dialects/bigquery.py).                 *)
(***************************************************************************)
\* OracleDialect.map_dtype
OracleDialect_map_dtype(col) ==
    LET max_len == StrLenMax(col)
    IN  IF AllNull(col) THEN Ret(Ty("VARCHAR2", <<1>>))
        ELSE IF col.dtype = "string" /\ \A i \in NonNull(col) : col.vals[i] = V_empty
        THEN Ret(Ty("VARCHAR2", <<1>>))
        ELSE IF is_integer_dtype(col.dtype) THEN Ret(Ty("NUMBER", <<max_len>>))
        ELSE IF is_float_dtype(col.dtype)
        THEN Ret(Ty("NUMBER", <<get_numeric_precision(col), 2>>))
        ELSE IF is_categorical(col.dtype) \/ is_string_dtype(col.dtype)
        THEN IF StrRaises(col) THEN Raise
             ELSE IF AllOfLen(col, max_len) THEN Ret(Ty("CHAR", <<max_len>>))
             ELSE Ret(Ty("VARCHAR2", <<max_len>>))
        ELSE IF ~has_pyarrow_dtype(col.dtype) THEN Raise
        ELSE IF col.dtype = "date32[pyarrow]" THEN Ret(Ty("DATE", <<>>))
        ELSE IF col.dtype = "timestamp[s][pyarrow]" THEN Ret(Ty("TIMESTAMP", <<>>))
        ELSE Ret(Ty("VARCHAR2", <<255>>))

\* BigQueryDialect.map_dtype
BigQueryDialect_map_dtype(col) ==
    IF is_integer_dtype(col.dtype) THEN Ret(Ty("INTEGER", <<>>))
    ELSE IF is_float_dtype(col.dtype) THEN Ret(Ty("NUMERIC", <<>>))
    ELSE IF is_categorical(col.dtype) \/ is_string_dtype(col.dtype)
    THEN Ret(Ty("STRING", <<>>))
    ELSE IF is_bool_dtype(col.dtype) THEN Ret(Ty("BOOLEAN", <<>>))
    ELSE IF ~has_pyarrow_dtype(col.dtype) THEN Raise
    ELSE IF col.dtype = "date32[pyarrow]" THEN Ret(Ty("DATE", <<>>))
    ELSE IF col.dtype = "timestamp[s][pyarrow]" THEN Ret(Ty("TIMESTAMP", <<>>))
    ELSE Ret(Ty("STRING", <<>>))

\* the dialect in use, and its map_dtype
Dialects == {"oracle", "bigquery"}
map_dtype(dialect, col) ==
    IF dialect = "oracle" THEN OracleDialect_map_dtype(col)
    ELSE BigQueryDialect_map_dtype(col)

\* One line of a DDL text: what kind of line it is, the statement or the
\* suffix it carries, the (qualified) table, the quote of the names, and for
\* a column definition the column, its type and the separator that follows.
DdlLine(line, text, table, quote, column, tipo, sep) ==
    [line |-> line, text |-> text, table |-> table, quote |-> quote,
     column |-> column, tipo |-> tipo, sep |-> sep]

\* a comma after the last definition too
ColumnLines_trailing_comma(schema, quote) ==
    [i \in 1..Len(schema) |->
        DdlLine("column", "", <<>>, quote, schema[i].column, schema[i].tipo, ",")]

\* ",\n".join(columns_definitions): a comma after every definition but the last
ColumnLines(schema, quote) ==
    [i \in 1..Len(schema) |->
        DdlLine("column", "", <<>>, quote, schema[i].column, schema[i].tipo,
                IF i < Len(schema) THEN "," ELSE "")]

\* the text of the f-string: the comment, the CREATE line, the column
\* definitions, the closing line, and what follows the last newline
DdlText(suffix, statement, table_name, full_table_name, quote, table_quote, schema) ==
    << DdlLine("comment", suffix, <<table_name>>, "", <<>>, Ty("", <<>>), ""),
       DdlLine("create", statement, full_table_name, table_quote, <<>>, Ty("", <<>>), "") >>
    \o ColumnLines(schema, quote)
    \o << DdlLine("close", ");", <<>>, "", <<>>, Ty("", <<>>), ""),
          DdlLine("end", "", <<>>, "", <<>>, Ty("", <<>>), "") >>

\* BigQueryDialect.generate_ddl; an id that is None or '' is not set
BigQueryDialect_generate_ddl(project_id, dataset_id, table_name, schema) ==
    LET full_table_name ==
            IF project_id # <<>> /\ dataset_id # <<>>
            THEN <<project_id, dataset_id, table_name>>
            ELSE IF dataset_id # <<>> THEN <<dataset_id, table_name>>
            ELSE <<table_name>>
    IN  DdlText(" (BigQuery)", "CREATE OR REPLACE TABLE", table_name, full_table_name,
                "backtick", "backtick", schema)

\* OracleDialect.generate_ddl
OracleDialect_generate_ddl(table_name, schema) ==
    DdlText("", "CREATE TABLE", table_name, <<table_name>>, "double quote", "", schema)

\* the settings of a dialect: the ids of BigQueryDialect.__init__
DialectConfigs ==
    [project_id : {<<>>, <<"p">>}, dataset_id : {<<>>, <<"d">>}]

\* a dialect and a typed table whose columns it is to map
InitDialect ==
    /\ mode \in Dialects
    /\ config \in IF mode = "bigquery" THEN DialectConfigs
                  ELSE {[project_id |-> <<>>, dataset_id |-> <<>>]}
    /\ \E t \in TypedTables(TypedKinds \cup {"dur"}) :
          /\ orig = t
          /\ frames = [caller |-> t, copy |-> t]
    /\ self_df = "caller"
    /\ schema_dict = <<>>
    /\ emitted = NoExport
    /\ raised = FALSE
    /\ log = <<>>
    /\ pc = 1
    /\ run = 1
    /\ out1 = <<>>
    /\ keyword_file = MissingFile
    /\ directory = NoDirectory

\* dialect.map_dtype(df[column]) for the next column: its type joins the
\* schema, or the exception ends the generation
MapDtype ==
    /\ mode \in Dialects
    /\ ~raised
    /\ emitted.kind = "none"
    /\ pc \in 1..Len(Df)
    /\ LET outcome == map_dtype(mode, Df[pc])
       IN  /\ raised' = outcome.raised
           /\ schema_dict' = IF outcome.raised THEN schema_dict
                             ELSE Append(schema_dict,
                                         [column |-> Df[pc].name, tipo |-> outcome.val])
           /\ pc' = IF outcome.raised THEN pc ELSE pc + 1
    /\ UNCHANGED <<config, frames, self_df, orig, mode, log, run, out1, keyword_file,
                   emitted, directory>>

\* dialect.generate_ddl(table_name, schema) on the schema built so far
GenerateDdl ==
    /\ mode \in Dialects
    /\ ~raised
    /\ emitted.kind = "none"
    /\ \E table_name \in {<<"t">>} :
          emitted' = Export("ddl", table_name,
                            IF mode = "oracle"
                            THEN OracleDialect_generate_ddl(table_name, schema_dict)
                            ELSE BigQueryDialect_generate_ddl(config.project_id,
                                     config.dataset_id, table_name, schema_dict))
    /\ UNCHANGED <<config, frames, self_df, orig, mode, pc, log, run, out1, raised,
                   keyword_file, schema_dict, directory>>

NextDialect == MapDtype \/ GenerateDdl

SpecDialect == InitDialect /\ [][NextDialect]_vars

(***************************************************************************)
(* The driver (main.py): main walks the data directory and calls            *)
(* process_file on every file.                                              *)
(***************************************************************************)
\* An entry of the directory: its name ("plain", one that starts with '.',
\* or desktop.ini), whether it is a regular file, and the stage of
\* process_file that fails on it ("none" when all succeed).
DirEntries ==
    [name : {"plain", "dot", "desktop.ini"},
     is_file : BOOLEAN,
     fails : {"none", "load", "detect", "export"}]

\* settings.data_directory_path, absolute or relative, and what iterdir yields
Directories ==
    [relative : BOOLEAN,
     entries : UNION {[1..n -> DirEntries] : n \in 1..MaxFiles}]

\* the levels loguru knows
LogLevels == {"TRACE", "DEBUG", "INFO", "SUCCESS", "WARNING", "ERROR", "CRITICAL"}

\* Settings(): log_level is any string of the environment
SettingsPool == [log_level : {"INFO", "VERBOSE"}]

\* setup_logger: logger.add(level=settings.log_level) raises ValueError for a
\* level that does not exist
setup_logger_raises(settings) == settings.log_level \notin LogLevels

\* process_file: setup_logger runs before the try; everything after it is
\* inside `try ... except Exception`, which logs the failure and returns
process_file(entry, settings) ==
    IF setup_logger_raises(settings) THEN [raised |-> TRUE, outcome |-> "escaped"]
    ELSE IF entry.fails = "none" THEN [raised |-> FALSE, outcome |-> "processed"]
    ELSE [raised |-> FALSE, outcome |-> "logged"]

\* (directory / filename).is_file(): iterdir already yields directory/name,
\* so for a relative directory the path tested is directory/directory/name
path_is_file(dir, entry) == entry.is_file /\ ~dir.relative

\* main, after Settings() was built
InitMain ==
    /\ mode = "main"
    /\ config \in SettingsPool
    /\ directory \in Directories
    /\ pc = 1
    /\ log = <<>>
    /\ raised = FALSE
    /\ frames = [caller |-> <<>>, copy |-> <<>>]
    /\ self_df = "caller"
    /\ orig = <<>>
    /\ run = 1
    /\ out1 = <<>>
    /\ keyword_file = MissingFile
    /\ schema_dict = <<>>
    /\ emitted = NoExport

\* one iteration of the loop of main, on entry pc
Visit ==
    /\ mode = "main"
    /\ ~raised
    /\ pc \in 1..Len(directory.entries)
    /\ LET entry == directory.entries[pc]
           result == process_file(entry, config)
       IN  IF entry.name \in {"dot", "desktop.ini"}
           THEN /\ log' = Append(log, [entry |-> pc, outcome |-> "skipped"])
                /\ raised' = FALSE
           ELSE IF path_is_file(directory, entry)
           THEN /\ log' = Append(log, [entry |-> pc, outcome |-> result.outcome])
                /\ raised' = result.raised
           ELSE /\ log' = Append(log, [entry |-> pc, outcome |-> "not a file"])
                /\ raised' = FALSE
    /\ pc' = pc + 1
    /\ UNCHANGED <<config, frames, self_df, orig, mode, run, out1, keyword_file,
                   schema_dict, emitted, directory>>

NextMain == Visit

SpecMain == InitMain /\ [][NextMain]_vars

(***************************************************************************)
(* Properties.                                                             *)
(***************************************************************************)
Cols(df) == 1..Len(df)
Detector == mode = "detector"

\* position of a call in the pipeline that is running (0: not part of it)
PosOf(method) ==
    IF \E p \in 1..Len(Order) : Order[p] = method
    THEN CHOOSE p \in 1..Len(Order) : Order[p] = method
    ELSE 0

\* the call `method` of the current run has been made
Done(method) == PosOf(method) > 0 /\ pc > PosOf(method)

C2_CallerUntouched ==
    Detector => frames["caller"] = orig

\* a run has returned a table that differs from the caller's
C2_Witness ==
    /\ Detector /\ Returned
    /\ frames["copy"] # orig
    /\ frames["caller"] = orig

\* C3: every step keeps the shape of the table -- the column names in their
\* order and the row count of every column are those the step received,
\* and all columns have one row count.
C3_ShapeKept ==
    [][/\ ColumnNames(Df') = ColumnNames(Df)
       /\ RowCounts(Df') = RowCounts(Df)
       /\ \A i, j \in Cols(Df') : Len(Df'[i].vals) = Len(Df'[j].vals)]_vars

\* a two-column table whose first column an Empty step has re-typed
C3_Witness ==
    /\ Len(Df) = 2
    /\ pc = 2
    /\ Df[1].dtype = "string"
    /\ orig[1].dtype = "float64"
    /\ Len(Df[2].vals) = Len(Df[1].vals)

\* the step of the design a call of run_detection belongs to; the Numeric
\* step is the two calls convert_numeric_columns, convert_float_columns_to_int
StepName(method) ==
    CASE method = "identify_empty_columns" -> "Empty"
      [] method = "convert_forced_text_columns" -> "ForcedText"
      [] method \in {"convert_numeric_columns", "convert_float_columns_to_int"} -> "Numeric"
      [] method = "convert_date_columns" -> "Date"
      [] method = "convert_categorical_columns" -> "Categorical"
      [] method = "convert_object_columns_to_string" -> "ObjectToText"
      [] OTHER -> method

\* the steps a log of calls went through: consecutive calls of one step count once
RECURSIVE StepsOf(_)
StepsOf(calls) ==
    IF calls = <<>> THEN <<>>
    ELSE LET rest == StepsOf(SubSeq(calls, 1, Len(calls) - 1))
             last == StepName(calls[Len(calls)])
         IN  IF rest # <<>> /\ rest[Len(rest)] = last THEN rest ELSE Append(rest, last)

FixedOrder == <<"Empty", "ForcedText", "Numeric", "Date", "Categorical", "ObjectToText">>

IsPrefix(s, u) == Len(s) <= Len(u) /\ s = SubSeq(u, 1, Len(s))

\* C4: run_detection runs the steps in the fixed order Empty, ForcedText,
\* Numeric, Date, Categorical, ObjectToText -- what has run so far is always
\* an initial part of that order without repetition, and a run that has
\* returned has run all of it, ObjectToText last.
C4_FixedOrder ==
    Detector =>
        /\ IsPrefix(StepsOf(log), FixedOrder)
        /\ Len(log) = pc - 1
        /\ Returned => StepsOf(log) = FixedOrder

\* a run has returned, after the Date step changed a table the Numeric step
\* had left alone
C4_Witness ==
    /\ Detector /\ Returned
    /\ log[Len(log)] = "convert_object_columns_to_string"
    /\ \E i \in Cols(Df) : Df[i].dtype = "datetime64[ns]"

\* C5: after a complete run no column is left Unknown.
C5_NoUnknown ==
    Returned => \A i \in Cols(Df) : SemType(Df[i].dtype) # "Unknown"

\* a run has returned a column that no step but the last one typed
C5_Witness ==
    /\ Detector /\ Returned /\ run = 1
    /\ \E i \in Cols(Df) :
          /\ orig[i].dtype = "object"
          /\ Df[i].dtype = "string"
          /\ ~is_forced_text(config, Df[i].name)

\* a text with the separators normalised the way the column's sample decides
Normalised(col, s) ==
    IF infer_decimal_separator(col) = ","
    THEN Replace(Replace(s, ".", <<>>), ",", <<".">>)
    ELSE Replace(s, ",", <<>>)

\* some non-null value of the column does not parse as a number
FailsNumeric(col) ==
    \E i \in NonNull(col) : ~ParseNum(Normalised(col, ToStr(col.vals[i]))).ok

\* C6: numeric conversion is atomic per column -- a candidate column with a
\* value that does not parse holds, after the Numeric step, exactly the
\* values it held before, and is still untyped.
C6_Atomic ==
    [][(ConvertNumericColumns \/ NumericConversionStep) =>
          \A i \in Cols(Df) :
              (Df[i].dtype = "object" /\ FailsNumeric(Df[i])) => Df'[i] = Df[i]]_vars

\* C7: "1.500,75" and "1,500.75" both parse to 1500.75 -- once the Numeric
\* step has run, an untyped column whose every value is one of these two
\* texts holds the number 1500.75 in every row.
C7_BothParse ==
    (run = 1 /\ (Done("convert_float_columns_to_int") \/ Done("NumericConversionStep"))) =>
        \A i \in Cols(orig) :
            \A v \in {V_1500_75_comma, V_1500_75_dot} :
                (/\ \A j \in Rows(orig[i]) : orig[i].vals[j] = v
                 /\ ~is_forced_text(config, orig[i].name))
                => /\ SemType(Df[i].dtype) = "Decimal"
                   /\ \A j \in Rows(Df[i]) : Df[i].vals[j] = FltV(150075 * Cent)

\* the Numeric step of the first run is over
NumericDone ==
    run = 1 /\ (Done("convert_float_columns_to_int") \/ Done("NumericConversionStep"))

\* the columns the Numeric step received untyped and converted
Converted(i) ==
    /\ orig[i].dtype = "object"
    /\ ~is_forced_text(config, orig[i].name)
    /\ ~FailsNumeric(orig[i])

\* the texts of a column, and the number the Numeric step parses from one
Texts(col) == {j \in Rows(col) : IsStr(col.vals[j])}
Parsed(col, j) == ParseNum(Normalised(col, col.vals[j].s)).v

\* what C8 says of one converted column; Whole(v) tells whether the parsed
\* value v counts as having no fractional part
NumericOutcome(i, Whole(_)) ==
    LET col == orig[i]
        int == \A j \in Texts(col) : Whole(Parsed(col, j))
    IN  /\ SemType(Df[i].dtype) = (IF int THEN "Integer" ELSE "Decimal")
        /\ \A j \in Texts(col) :
              Df[i].vals[j] = IF int THEN IntV(Round2(Parsed(col, j)) \div Scale)
                              ELSE FltV(Round2(Parsed(col, j)))
        /\ \A j \in Rows(col) : IsNull(col.vals[j]) => IsNull(Df[i].vals[j])

\* C8 as stated: a converted column is Integer iff every non-null parsed
\* value has a zero fractional part, else Decimal rounded to 2 places.
C8_IntegerIffWholeParsed ==
    NumericDone => \A i \in Cols(orig) : Converted(i) => NumericOutcome(i, IsWhole)

\* C8 amended: a converted column is Integer iff every non-null parsed
\* value, rounded to 2 decimal places, has a zero fractional part (nulls stay
\* null and do not count); otherwise it is Decimal and every value is
\* rounded to 2 decimal places.
WholeOnceRounded(v) == IsWhole(Round2(v))

C8_IntegerIffWholeRounded ==
    NumericDone => \A i \in Cols(orig) : Converted(i) => NumericOutcome(i, WholeOnceRounded)

\* a converted column with a null and the text "2.001" has become Integer
C8_Witness ==
    /\ NumericDone
    /\ \E i \in Cols(orig) :
          /\ Converted(i)
          /\ \E j \in Rows(orig[i]) : orig[i].vals[j] = V_2_001
          /\ \E j \in Rows(orig[i]) : IsNull(orig[i].vals[j])
          /\ SemType(Df[i].dtype) = "Integer"

\* C9: a forced-text column stays Text to the end of the run -- from the
\* ForcedText step on, a column whose name matches a text keyword has type
\* Text and the text of the values it was given.
C9_ForcedStaysText ==
    (run = 1 /\ (Done("convert_forced_text_columns") \/ Done("ForcedTextConversionStep"))) =>
        \A i \in Cols(orig) :
            is_forced_text(config, orig[i].name) => Df[i] = AsString(orig[i])

\* a keyword is part of the name when case is ignored on both sides
MatchesIgnoringCase(cfg, col_name) ==
    \E keyword \in cfg.text_keywords : Contains(Lower(col_name), Lower(keyword))

\* the ForcedText step of the first run has just run
ForcedTextJustDone ==
    /\ run = 1
    /\ pc > 1
    /\ Order[pc - 1] \in {"convert_forced_text_columns", "ForcedTextConversionStep"}

\* C10: the keyword match ignores case on both sides -- right after the
\* ForcedText step a column that is not empty is Text if and only if some
\* keyword is part of its name, case ignored.
C10_MatchIgnoresCase ==
    ForcedTextJustDone =>
        \A i \in Cols(orig) :
            ~AllNull(orig[i]) =>
                (Df[i].dtype = "string" <=> MatchesIgnoringCase(config, orig[i].name))

DateCandidate(col) ==
    /\ col.dtype = "object"
    /\ is_date_like(col)
    /\ \A j \in NonNull(col) : IsStr(col.vals[j])

\* the value parses to a date: a value with the "0001" marker counts as null
ParsesAsDate(v) ==
    /\ IsStr(v)
    /\ ~Contains(v.s, Sentinel)
    /\ ~IsNull(DateParse(v.s))

ParsedCount(col) == Cardinality({j \in NonNull(col) : ParsesAsDate(col.vals[j])})

IsDateType(dtype) == SemType(dtype) \in {"Date", "Timestamp"}

DateStepRuns == (ConvertDateColumns \/ DateConversionStep) /\ ~raised'

\* C12: the Date step accepts a candidate column if and only if the values
\* that parse to a date are at least half of the values that were non-null
\* before the step ("0001" values included in the latter).
C12_AcceptIffHalf ==
    [][DateStepRuns =>
          \A i \in Cols(Df) :
              DateCandidate(Df[i]) =>
                  (IsDateType(Df'[i].dtype)
                      <=> 2 * ParsedCount(Df[i]) >= Cardinality(NonNull(Df[i])))]_vars

\* C13: a candidate column the Date step does not accept holds afterwards
\* exactly the values it held before the step, "0001" values included.
C13_RevertVerbatim ==
    [][DateStepRuns =>
          \A i \in Cols(Df) :
              (DateCandidate(Df[i]) /\ ~IsDateType(Df'[i].dtype)) => Df'[i] = Df[i]]_vars

\* what C14 says of a column the Date step turned from `before` into `after`
DateOrTimestamp(before, after) ==
    LET timed == \E j \in NonNull(after) : after.vals[j].t # 0
    IN  /\ ~timed => SemType(after.dtype) = "Date"
        /\ timed => SemType(after.dtype) = "Timestamp"
        /\ \A j \in Rows(before) :
              ParsesAsDate(before.vals[j]) => after.vals[j] = DateParse(before.vals[j].s)

\* C14: a column the Date step accepts is declared Date when every resulting
\* non-null value has a zero time of day (also when there is no such value),
\* and Timestamp, the time of day of each value kept, when one has not.
C14_DateOrTimestamp ==
    [][DateStepRuns =>
          \A i \in Cols(Df) :
              (DateCandidate(Df[i]) /\ IsDateType(Df'[i].dtype))
                  => DateOrTimestamp(Df[i], Df'[i])]_vars

\* C15: Numeric runs before Date -- from the Numeric step on, an untyped
\* column whose every non-null value parses as a number is never Date or
\* Timestamp, whatever its name, and is Integer or Decimal unless the
\* ForcedText step pinned it.
C15_NumericBeforeDate ==
    NumericDone =>
        \A i \in Cols(orig) :
            (orig[i].dtype = "object" /\ ~FailsNumeric(orig[i])) =>
                /\ ~IsDateType(Df[i].dtype)
                /\ ~is_forced_text(config, orig[i].name) =>
                      SemType(Df[i].dtype) \in {"Integer", "Decimal"}

\* a run has returned with a column named "fecha" whose values, the text
\* "2024", are numbers and dates alike
C15_Witness ==
    /\ run = 1 /\ Returned
    /\ \E i \in Cols(orig) :
          /\ Contains(orig[i].name, Chars_fecha)
          /\ \A j \in Rows(orig[i]) : orig[i].vals[j] = V_year
          /\ ~IsNull(DateParse(V_year.s))
          /\ SemType(Df[i].dtype) = "Integer"

\* the column has exactly two distinct non-null values, one of them a true
\* value and the other a false value once trimmed and lowered
TrueFalsePair(cfg, col) ==
    LET Key(v) == Lower(Strip(ToStr(v)))
    IN  /\ Cardinality(Distinct(col)) = 2
        /\ \E a, b \in Distinct(col) :
              /\ a # b
              /\ Key(a) \in cfg.boolean_true_values
              /\ Key(b) \in cfg.boolean_false_values

\* C16: the Boolean step converts a column only if it has exactly two
\* distinct non-null values, one in the true set and the other in the false
\* set; two true values, two false values, a value in neither set or more
\* than two values leave the column unconverted.
C16_OnlyTrueFalsePair ==
    [][BooleanConversionStep =>
          \A i \in Cols(Df) :
              (SemType(Df'[i].dtype) = "Boolean" /\ SemType(Df[i].dtype) # "Boolean")
                  => TrueFalsePair(config, Df[i])]_vars

\* C17: run_detection converts a text column with exactly two distinct
\* non-null values, one in the true set and one in the false set, to Boolean
\* -- in the table it returns the true values are true, the false values
\* false and the null cells null.
C17_RunDetectionBoolean ==
    (Detector /\ run = 1 /\ Returned) =>
        \A i \in Cols(orig) :
            (/\ orig[i].dtype = "object"
             /\ \A j \in NonNull(orig[i]) : IsStr(orig[i].vals[j])
             /\ TrueFalsePair(config, orig[i])
             /\ ~is_forced_text(config, orig[i].name))
            => /\ SemType(Df[i].dtype) = "Boolean"
               /\ \A j \in Rows(orig[i]) :
                     Df[i].vals[j] =
                         IF IsNull(orig[i].vals[j]) THEN Null
                         ELSE BoolV(Lower(Strip(orig[i].vals[j].s)) \in config.boolean_true_values)

\* among the distinct non-null values one parses as a number and one does not
MixedValues(col) ==
    LET Numeric(v) == v.k \in {"int", "flt"} \/ (IsStr(v) /\ ParseNum(v.s).ok)
    IN  /\ \E v \in Distinct(col) : Numeric(v)
        /\ \E v \in Distinct(col) : ~Numeric(v)

\* distinctNonNull / totalRows < cardinality_threshold, in hundredths
BelowThreshold(cfg, col) ==
    Cardinality(Distinct(col)) * ThresholdDen < cfg.cardinality_threshold * Len(col.vals)

CategoricalStepRuns == ConvertCategoricalColumns \/ CategoricalConversionStep

C19_NeverFatal == ~raised

\* C20: from_yaml never aborts on a missing or malformed keyword file -- it
\* does not raise, and what it returns has an empty keyword set and the
\* default thresholds 0.05 and 100.
C20_FromYamlFallsBack ==
    (mode = "from_yaml" /\ keyword_file.kind \in {"missing", "malformed"}) =>
        /\ ~raised
        /\ pc = 2 =>
              config = ConfigOf(<<>>, DefaultCardinalityThreshold, DefaultUniqueCountLimit)

\* the columns a schema covers, in order
CoveredColumns(rows) == [i \in 1..Len(rows) |-> rows[i].column]

\* C21: schema generation is all-or-nothing -- a schema that is stored or
\* exported has exactly one entry per column of the table; after a
\* generation that failed on some column no schema of only the columns
\* before it is kept or exported.
C21_AllOrNothing ==
    mode = "schema" =>
        /\ Len(schema_dict) > 0 => CoveredColumns(schema_dict) = ColumnNames(Df)
        /\ emitted.kind # "none" => CoveredColumns(emitted.rows) = ColumnNames(Df)

\* C22: the schema is computed at most once per generator -- after a call
\* that computed it, no later call of generate_schema_dict, to_excel or
\* to_oracle_ddl derives a column entry again.
C22_ComputedOnce ==
    mode = "schema" =>
        \A i, j \in 1..Len(log) :
            (i < j /\ ~log[i].raised) => log[j].derived = 0

\* the longest rendering among the non-null cells, 0 when there is none
MaxLenNonNull(col) ==
    IF AllNull(col) THEN 0 ELSE Max({Len(ToStr(col.vals[i])) : i \in NonNull(col)})

\* C23: the length of every schema entry is the longest string rendering of
\* the column's non-null values only, is at least 0, and is 0 exactly when
\* the column is entirely null.
C23_LengthOfNonNull ==
    mode = "schema" =>
        \A i \in 1..Len(schema_dict) : \A c \in 1..Len(Df) :
            Df[c].name = schema_dict[i].column =>
                /\ schema_dict[i].longitud = MaxLenNonNull(Df[c])
                /\ schema_dict[i].longitud >= 0
                /\ schema_dict[i].longitud = 0 <=> AllNull(Df[c])

\* the lengths of the non-null values of a column
NonNullLens(col) == {Len(ToStr(col.vals[i])) : i \in NonNull(col)}

\* the Oracle type of a text column, by its non-null values alone
OracleTextType(col) ==
    IF NonNullLens(col) \subseteq {0} THEN Ty("VARCHAR2", <<1>>)
    ELSE IF Cardinality(NonNullLens(col)) = 1 THEN Ty("CHAR", <<Max(NonNullLens(col))>>)
    ELSE Ty("VARCHAR2", <<Max(NonNullLens(col))>>)

\* C24: OracleDialect maps a text column that is entirely null or holds only
\* empty strings to VARCHAR2(1), one whose non-null values all have length L
\* to CHAR(L), and any other to VARCHAR2(M), M the longest non-null value;
\* null cells change neither the choice nor the length.
C24_OracleText ==
    mode = "oracle" =>
        \A i \in 1..Len(schema_dict) :
            SemType(Df[i].dtype) = "Text" => schema_dict[i].tipo = OracleTextType(Df[i])

\* the BigQuery type of a semantic type
BigQueryType(sem) ==
    CASE sem = "Integer" -> Ty("INTEGER", <<>>)
      [] sem = "Decimal" -> Ty("NUMERIC", <<>>)
      [] sem \in {"Categorical", "Text"} -> Ty("STRING", <<>>)
      [] sem = "Boolean" -> Ty("BOOLEAN", <<>>)
      [] sem = "Date" -> Ty("DATE", <<>>)
      [] sem = "Timestamp" -> Ty("TIMESTAMP", <<>>)
      [] OTHER -> Ty("", <<>>)

Classified ==
    {"Integer", "Decimal", "Categorical", "Text", "Boolean", "Date", "Timestamp"}

\* C25: BigQueryDialect.map_dtype maps every Integer column to INTEGER,
\* Decimal to NUMERIC, Categorical and Text to STRING, Boolean to BOOLEAN,
\* Date to DATE and Timestamp to TIMESTAMP, whatever its values and nulls.
C25_BigQueryTypes ==
    mode = "bigquery" =>
        /\ \A i \in 1..Len(schema_dict) :
              SemType(Df[i].dtype) \in Classified =>
                  schema_dict[i].tipo = BigQueryType(SemType(Df[i].dtype))
        /\ raised => SemType(Df[pc].dtype) \notin Classified

\* the CREATE statement of BigQuery for `table`, unqualified
IsCreateLine(l, table) ==
    /\ l.line = "create"
    /\ l.text = "CREATE OR REPLACE TABLE"
    /\ l.table = <<table>>
    /\ l.quote = "backtick"

\* one backtick-quoted definition per schema entry, in schema order, a comma
\* after each but the last
IsColumnBlock(lines, schema) ==
    /\ Len(lines) = Len(schema)
    /\ \A i \in 1..Len(lines) :
          /\ lines[i].line = "column"
          /\ lines[i].quote = "backtick"
          /\ lines[i].column = schema[i].column
          /\ lines[i].tipo = schema[i].tipo
          /\ lines[i].sep = IF i < Len(schema) THEN "," ELSE ""

\* BigQueryDialect.generate_ddl returned, neither id configured
BigQueryDdlDone ==
    /\ mode = "bigquery"
    /\ config.project_id = <<>> /\ config.dataset_id = <<>>
    /\ emitted.kind = "ddl"

\* C26 as stated: the DDL text of BigQueryDialect with neither project nor
\* dataset begins with the CREATE OR REPLACE TABLE `table` ( line, ends with
\* ");", and has between them one backtick-quoted column definition per
\* schema entry, in schema order, comma-separated, no trailing comma.
C26_DdlBeginsWithCreate ==
    BigQueryDdlDone =>
        LET text == emitted.rows
        IN  /\ IsCreateLine(text[1], emitted.table)
            /\ text[Len(text)].line = "close"
            /\ IsColumnBlock(SubSeq(text, 2, Len(text) - 1), schema_dict)

\* C26, amended: the text is a comment line naming the table and
\* "(BigQuery)", then the CREATE OR REPLACE TABLE `table` ( line, then one
\* backtick-quoted column definition per schema entry, in schema order,
\* comma-separated with no trailing comma, then ");" and a final newline.
C26_DdlStatement ==
    BigQueryDdlDone =>
        LET text == emitted.rows
        IN  /\ Len(text) = Len(schema_dict) + 4
            /\ text[1].line = "comment"
            /\ text[1].text = " (BigQuery)"
            /\ text[1].table = <<emitted.table>>
            /\ IsCreateLine(text[2], emitted.table)
            /\ IsColumnBlock(SubSeq(text, 3, Len(text) - 2), schema_dict)
            /\ text[Len(text) - 1].line = "close"
            /\ text[Len(text) - 1].text = ");"
            /\ text[Len(text)].line = "end"

\* a DDL of two columns was generated
C26_Witness ==
    /\ BigQueryDdlDone
    /\ Len(schema_dict) = 2
    /\ Len(emitted.rows) = 6

\* a dtype no branch of map_dtype names
Unclassifiable(dtype) == SemType(dtype) = "Unknown" /\ dtype # "object"

\* the default type of a dialect
DefaultType(dialect) ==
    IF dialect = "oracle" THEN Ty("VARCHAR2", <<255>>) ELSE Ty("STRING", <<>>)

\* C27: map_dtype is total -- it never raises, whatever the column, and a
\* column it cannot classify gets the dialect default, VARCHAR2(255) for
\* Oracle and STRING for BigQuery.
C27_MapDtypeTotal ==
    mode \in Dialects =>
        /\ ~raised
        /\ \A i \in 1..Len(schema_dict) :
              (Unclassifiable(Df[i].dtype) /\ ~AllNull(Df[i])) =>
                  schema_dict[i].tipo = DefaultType(mode)

\* the number of digits of n, the sign not counted
DigitLength(n) == Len(NatStr(Abs(n)))

\* C28: OracleDialect maps an Integer column to NUMBER(d), d the largest
\* number of digits of a non-null value (sign and nulls not counted), and a
\* Decimal column to NUMBER(p, 2), p the digits of the largest absolute
\* integer part plus 2, also for a negative value.
C28_OracleNumeric ==
    mode = "oracle" =>
        \A i \in 1..Len(schema_dict) :
            /\ SemType(Df[i].dtype) = "Integer" =>
                  schema_dict[i].tipo =
                      Ty("NUMBER", <<Max({DigitLength(Df[i].vals[j].n) : j \in NonNull(Df[i])})>>)
            /\ SemType(Df[i].dtype) = "Decimal" =>
                  schema_dict[i].tipo =
                      Ty("NUMBER",
                         <<DigitLength(Max({Abs(Df[i].vals[j].n) \div Scale
                                              : j \in NonNull(Df[i])})) + 2, 2>>)

\* the kind of descriptor a semantic type calls for
DescriptorKind(sem) ==
    CASE sem \in {"Categorical", "Boolean"} -> "list"
      [] sem \in {"Integer", "Decimal"} -> "stats"
      [] sem \in {"Date", "Timestamp"} -> "range"
      [] OTHER -> "empty"

\* C29: the descriptor of a schema entry follows the column's semantic type:
\* the list of distinct categories for Categorical, the list of distinct
\* literal values present for Boolean, the min/max/mean/std summary for
\* Integer and Decimal, the min/max date range for Date and Timestamp, and
\* the empty descriptor for Text and any other type.
C29_DescriptorByType ==
    mode = "schema" =>
        \A i \in 1..Len(schema_dict) : \A c \in 1..Len(Df) :
            Df[c].name = schema_dict[i].column =>
                LET d == schema_dict[i].valores_permitidos
                    sem == SemType(Df[c].dtype)
                IN  /\ d.kind = DescriptorKind(sem)
                    /\ d.kind = "list" => d.cats = Literals(Df[c])

\* the calls of process_file on entry i that returned
Processed(i) ==
    {k \in 1..Len(log) : log[k].entry = i /\ log[k].outcome \in {"processed", "logged"}}

\* C30: the driver isolates files -- no exception escapes process_file, and
\* every regular, non-hidden file of the directory that main has passed was
\* handed to process_file exactly once, whatever happened to the files
\* before it.
C30_FilesIsolated ==
    mode = "main" =>
        /\ ~raised
        /\ \A i \in 1..(pc - 1) :
              (directory.entries[i].is_file /\ directory.entries[i].name = "plain")
                  => Cardinality(Processed(i)) = 1

====
